---- MODULE Spec2Model ----
(***************************************************************************)
(* Model of src/bsd/vmnet.c: the adapter that turns the asynchronous,      *)
(* callback-driven vmnet framework into a descriptor (one end of a         *)
(* datagram socket pair) plus a synchronous write.                         *)
(*                                                                         *)
(* Two execution domains are modelled: the consumer thread, which calls    *)
(* macos_vmnet_open / macos_vmnet_close / macos_vmnet_write and blocks on  *)
(* a semaphore inside open and close, and the serial dispatch queue        *)
(* if_queue, which runs the start completion, the stop completion and the  *)
(* packets-available block one at a time in submission order.              *)
(***************************************************************************)
EXTENDS Integers, Sequences, FiniteSets, TLC

\* ---------------------------------------------------------------- bounds
MaxOpens == 1      \* calls of macos_vmnet_open
MaxCloses == 2     \* calls of macos_vmnet_close that pass validation
MaxEvents == 2     \* packets-available events raised by the framework
MaxMps == 2        \* largest max_packet_size the framework reports
PipeCap == 1       \* datagrams the socket buffer holds before writev fails

\* ------------------------------------------------------------- constants
NULL == 0

VMNET_SUCCESS == "VMNET_SUCCESS"
VMNET_FAILURE == "VMNET_FAILURE"
VMNET_SETUP_INCOMPLETE == "VMNET_SETUP_INCOMPLETE"
VMNET_BUFFER_EXHAUSTED == "VMNET_BUFFER_EXHAUSTED"

\* Statuses a start or stop completion may report.
CompletionStatuses == {VMNET_SUCCESS, VMNET_FAILURE}
\* Statuses vmnet_read / vmnet_write may return.
IoStatuses == {VMNET_SUCCESS, VMNET_BUFFER_EXHAUSTED}

VARIABLES
    \* the statics of vmnet.c
    if_status,        \* volatile vmnet_return_t
    if_queue,         \* dispatch_queue_t: NULL or the id of a queue
    vmnet_if,         \* interface_ref: NULL or the id of an interface
    max_packet_size,  \* size_t
    read_iov_in,      \* struct iovec: [iov_base, iov_len]
    read_socket,      \* int[2]: [0] external end, [1] internal end
    \* the process' resources
    bufData,          \* content of the buffer read_iov_in.iov_base points to
    openFds,          \* descriptors of socket ends that are open
    liveQueues,       \* dispatch queues created and not yet released
    pipe,             \* datagrams written to [1] and not yet read from [0]
    counts,           \* read buffers malloc'ed and freed, socket ends
                      \* opened and closed, so far
    \* the framework and the dispatch queue
    fwCalls,          \* start/register/deregister/stop calls, in order
    fwRegistered,     \* a packets-available callback is registered
    nFrames,          \* frames the framework has handed to vmnet_read
    nEvents,          \* packets-available events raised so far
    queue,            \* blocks submitted to the serial queue, oldest first
    sem,              \* if_started_sem / if_stopped_sem of the call in flight
    \* the consumer thread and the record of what happened
    pc,               \* "idle", "open_wait" or "close_wait"
    last,             \* the consumer's last call: [op, arg, val]; op is
                      \* "opening"/"closing" while the call is blocked
    calls,            \* framework calls made by that call
    ev,               \* the last run of macos_vmnet_read
    lastRecv,         \* id of the last datagram the consumer read from [0]
    phase,            \* "Uninitialized", "Running" or "Closed"
    hist,             \* outcomes of the open calls and validated close calls
    nOpen,
    nClose

statics == <<if_status, if_queue, vmnet_if, max_packet_size, read_iov_in, read_socket>>
resources == <<bufData, openFds, liveQueues, pipe, counts>>
framework == <<fwCalls, fwRegistered, nFrames, nEvents, queue, sem>>
consumer == <<pc, last, calls, ev, lastRecv, phase, hist, nOpen, nClose>>
vars == <<statics, resources, framework, consumer>>

\* ------------------------------------------------------------ helpers
\* The lowest descriptor number not in use, as socketpair() allocates them
\* (0, 1 and 2 are the standard streams).
LowestFree(used) ==
    CHOOSE n \in 3..(3 + Cardinality(used)) :
        n \notin used /\ \A m \in 3..(n - 1) : m \in used

\* A block submitted to the serial dispatch queue. interface_param is the
\* max packet size of the parameter dictionary, or NULL when there is none.
Block(kind, status, interface_param) ==
    [kind |-> kind, status |-> status, interface_param |-> interface_param]

\* A framework call as the framework sees it.
Call(fn, size, cnt_in, status, cnt_out) ==
    [fn |-> fn, size |-> size, cnt_in |-> cnt_in, status |-> status, cnt_out |-> cnt_out]

Lifecycle(fn) == Call(fn, 0, 0, "", 0)

Result(op, arg, val) == [op |-> op, arg |-> arg, val |-> val]

Init ==
    /\ if_status = VMNET_SETUP_INCOMPLETE
    /\ if_queue = NULL
    /\ vmnet_if = NULL
    /\ max_packet_size = 0
    /\ read_iov_in = [iov_base |-> NULL, iov_len |-> 0]
    /\ read_socket = [i \in {0, 1} |-> 0]
    /\ bufData = 0
    /\ openFds = {}
    /\ liveQueues = {}
    /\ pipe = <<>>
    /\ counts = [alloc |-> 0, free |-> 0, sockOpen |-> 0, sockClose |-> 0]
    /\ fwCalls = <<>>
    /\ fwRegistered = FALSE
    /\ nFrames = 0
    /\ nEvents = 0
    /\ queue = <<>>
    /\ sem = 0
    /\ pc = "idle"
    /\ last = [op |-> "none", arg |-> 0, val |-> 0]
    /\ calls = <<>>
    /\ ev = [n |-> 0, reads |-> <<>>, writes |-> <<>>, log |-> "none"]
    /\ lastRecv = 0
    /\ phase = "Uninitialized"
    /\ hist = <<>>
    /\ nOpen = 0
    /\ nClose = 0


\* --------------------------------------------------- dispatch semaphores
\* A signal that is lost instead of counted.
SemAfterSignal_lost(s) == s

\* dispatch_semaphore_signal(): the count goes up by one, whether or not a
\* thread is waiting yet.
SemAfterSignal(s) == s + 1

\* An open that does not wait for if_started_sem.
StartedSemPassed_nowait == TRUE

\* dispatch_semaphore_wait(if_started_sem, DISPATCH_TIME_FOREVER) returns
\* only once the semaphore has been signalled.
StartedSemPassed == sem > 0

\* A close that does not wait for if_stopped_sem.
StoppedSemPassed_nowait == TRUE

\* dispatch_semaphore_wait(if_stopped_sem, DISPATCH_TIME_FOREVER).
StoppedSemPassed == sem > 0

\* ------------------------------------------------------ macos_vmnet_open
\* What vmnet_start_interface can do: the reference it returns at once and
\* the completion it submits to if_queue.  The reference is returned before
\* the completion has run, so a failed start may leave a non-NULL reference.
StartOutcomes(id) ==
    {[ref |-> id, status |-> VMNET_SUCCESS, interface_param |-> m] : m \in 0..MaxMps}
        \cup {[ref |-> r, status |-> VMNET_FAILURE, interface_param |-> NULL] : r \in {NULL, id}}

\* The adapter is single-shot per process: open is called only while it is
\* Uninitialized, that is at first or again after an open that failed.
\*
\* socketpair() fails: open logs and returns -1 before touching anything.
OpenSocketpairFails ==
    /\ pc = "idle" /\ nOpen < MaxOpens /\ phase = "Uninitialized"
    /\ nOpen' = nOpen + 1
    /\ last' = Result("open", 0, -1)
    /\ calls' = <<>>
    /\ phase' = "Uninitialized"
    /\ hist' = Append(hist, "open_fail")
    /\ UNCHANGED <<statics, resources, framework, pc, ev, lastRecv, nClose>>

\* socketpair(), dispatch_queue_create(), vmnet_start_interface(), up to the
\* dispatch_semaphore_wait().
OpenStart ==
    /\ pc = "idle" /\ nOpen < MaxOpens /\ phase = "Uninitialized"
    /\ nOpen' = nOpen + 1
    /\ LET fd0 == LowestFree(openFds)
           fd1 == LowestFree(openFds \cup {fd0})
       IN  /\ read_socket' = [i \in {0, 1} |-> IF i = 0 THEN fd0 ELSE fd1]
           /\ openFds' = openFds \cup {fd0, fd1}
           /\ counts' = [counts EXCEPT !.sockOpen = @ + 2]
    /\ pipe' = <<>>
    /\ if_queue' = nOpen'
    /\ liveQueues' = liveQueues \cup {nOpen'}
    /\ sem' = 0
    /\ \E o \in StartOutcomes(nOpen') :
          /\ vmnet_if' = o.ref
          /\ queue' = Append(queue, Block("start_cb", o.status, o.interface_param))
    /\ fwCalls' = Append(fwCalls, "vmnet_start_interface")
    /\ calls' = <<Lifecycle("vmnet_start_interface")>>
    /\ last' = Result("opening", 0, 0)
    /\ pc' = "open_wait"
    /\ UNCHANGED <<if_status, max_packet_size, read_iov_in, bufData, fwRegistered,
                   nFrames, nEvents, ev, lastRecv, phase, hist, nClose>>

\* The completion block of vmnet_start_interface, run on if_queue.
StartCompletion ==
    /\ queue # <<>> /\ Head(queue).kind = "start_cb"
    /\ LET b == Head(queue)
       IN  /\ if_status' = b.status
           /\ max_packet_size' =
                 IF b.status = VMNET_SUCCESS /\ b.interface_param # NULL
                 THEN b.interface_param ELSE max_packet_size
    /\ queue' = Tail(queue)
    /\ sem' = SemAfterSignal(sem)
    /\ UNCHANGED <<if_queue, vmnet_if, read_iov_in, read_socket, resources,
                   fwCalls, fwRegistered, nFrames, nEvents, consumer>>

\* From the return of dispatch_semaphore_wait() to the return of open.
OpenResume ==
    /\ pc = "open_wait" /\ StartedSemPassed
    /\ sem' = sem - 1
    /\ pc' = "idle"
    /\ IF if_status # VMNET_SUCCESS
       THEN /\ last' = Result("open", 0, -1)
            /\ phase' = "Uninitialized"
            /\ hist' = Append(hist, "open_fail")
            /\ UNCHANGED <<read_iov_in, bufData, counts, fwCalls, fwRegistered, calls>>
       ELSE /\ read_iov_in' = [iov_base |-> nOpen, iov_len |-> max_packet_size]
            /\ counts' = [counts EXCEPT !.alloc = @ + 1]
            /\ bufData' = 0
            /\ fwCalls' = Append(fwCalls, "set_event_callback")
            /\ calls' = Append(calls, Lifecycle("set_event_callback"))
            /\ fwRegistered' = TRUE
            /\ last' = Result("open", 0, read_socket[0])
            /\ phase' = "Running"
            /\ hist' = Append(hist, "open_ok")
    /\ UNCHANGED <<if_status, if_queue, vmnet_if, max_packet_size, read_socket,
                   openFds, liveQueues, pipe, nFrames, nEvents, queue,
                   ev, lastRecv, nOpen, nClose>>


\* ----------------------------------------------------- macos_vmnet_close
\* The validation with the two tests joined by "and".
CloseInvalid_and(fd) == vmnet_if = NULL /\ fd # read_socket[0]

\* The validation at the head of close.
CloseInvalid(fd) == vmnet_if = NULL \/ fd # read_socket[0]

\* The two calls in the opposite order.
CloseFrameworkCalls_swapped == <<"vmnet_stop_interface", "clear_event_callback">>

\* The framework calls a validated close makes, in program order.
CloseFrameworkCalls == <<"clear_event_callback", "vmnet_stop_interface">>

\* Descriptors a caller may pass: the two socket ends and a stray value.
CloseArgs == {read_socket[0], read_socket[1], -1}

\* close fails validation: logs and returns -1.
CloseRejected(fd) ==
    /\ pc = "idle"
    /\ CloseInvalid(fd)
    /\ last' = Result("close", fd, -1)
    /\ calls' = <<>>
    /\ UNCHANGED <<statics, resources, framework, pc, ev, lastRecv, phase, hist,
                   nOpen, nClose>>

\* close passes validation: clears the event callback, calls
\* vmnet_stop_interface() and blocks in dispatch_semaphore_wait().
CloseStop(fd) ==
    /\ pc = "idle" /\ nClose < MaxCloses
    /\ ~CloseInvalid(fd)
    /\ nClose' = nClose + 1
    /\ fwCalls' = fwCalls \o CloseFrameworkCalls
    /\ calls' = [i \in 1..Len(CloseFrameworkCalls) |-> Lifecycle(CloseFrameworkCalls[i])]
    /\ fwRegistered' = FALSE
    /\ sem' = 0
    /\ \E st \in CompletionStatuses :
          queue' = Append(queue, Block("stop_cb", st, NULL))
    /\ last' = Result("closing", fd, 0)
    /\ pc' = "close_wait"
    /\ UNCHANGED <<statics, resources, nFrames, nEvents, ev, lastRecv, phase,
                   hist, nOpen>>

\* The completion block of vmnet_stop_interface, run on if_queue.
StopCompletion ==
    /\ queue # <<>> /\ Head(queue).kind = "stop_cb"
    /\ if_status' = Head(queue).status
    /\ queue' = Tail(queue)
    /\ sem' = SemAfterSignal(sem)
    /\ UNCHANGED <<if_queue, vmnet_if, max_packet_size, read_iov_in, read_socket,
                   resources, fwCalls, fwRegistered, nFrames, nEvents, consumer>>

\* A close that forgets the internal end.
SocketsClosedByClose_one == {read_socket[0]}

\* The descriptors close hands to close().
SocketsClosedByClose == {read_socket[0], read_socket[1]}

\* From the return of dispatch_semaphore_wait() to the return of close.
CloseResume ==
    /\ pc = "close_wait" /\ StoppedSemPassed
    /\ sem' = sem - 1
    /\ pc' = "idle"
    /\ IF if_status # VMNET_SUCCESS
       THEN /\ last' = Result("close", last.arg, -1)
            /\ hist' = Append(hist, "close_fail")
            /\ UNCHANGED <<read_iov_in, resources, phase>>
       ELSE /\ liveQueues' = liveQueues \ {if_queue}
            /\ read_iov_in' = [iov_base |-> NULL, iov_len |-> 0]
            /\ bufData' = 0
            /\ openFds' = openFds \ SocketsClosedByClose
            /\ counts' = [counts EXCEPT
                  !.free = IF read_iov_in.iov_base # NULL THEN @ + 1 ELSE @,
                  !.sockClose = @ + Cardinality(SocketsClosedByClose \cap openFds)]
            /\ pipe' = <<>>
            /\ last' = Result("close", last.arg, 0)
            /\ phase' = "Closed"
            /\ hist' = Append(hist, "close_ok")
    /\ UNCHANGED <<if_status, if_queue, vmnet_if, max_packet_size, read_socket,
                   fwCalls, fwRegistered, nFrames, nEvents, queue,
                   calls, ev, lastRecv, nOpen, nClose>>


\* ------------------------------------------------------ macos_vmnet_read
\* The framework raises a packets-available event: it submits the block
\* registered by open to if_queue.
FrameworkEvent ==
    /\ fwRegistered /\ nEvents < MaxEvents
    /\ nEvents' = nEvents + 1
    /\ queue' = Append(queue, Block("event", "", NULL))
    /\ UNCHANGED <<statics, resources, fwCalls, fwRegistered, nFrames, sem, consumer>>

\* What vmnet_read can do with a descriptor of capacity max_packet_size and
\* count 1: hand over the next frame (count stays 1, vm_pkt_size becomes the
\* frame's size), report success with no packet (count 0), or fail.
ReadOutcomes ==
    {[status |-> VMNET_SUCCESS, count |-> 1, vm_pkt_size |-> s, vm_pkt_iovcnt |-> 1,
      id |-> nFrames + 1] : s \in 1..max_packet_size}
        \cup {[status |-> st, count |-> 0, vm_pkt_size |-> max_packet_size,
               vm_pkt_iovcnt |-> 1, id |-> 0] : st \in IoStatuses}

\* The condition with "or": forwards although the framework gave no packet.
ShouldForward_or(count, vm_pkt_iovcnt) == count # 0 \/ vm_pkt_iovcnt # 0

\* The condition under which the handler forwards the packet.
ShouldForward(count, vm_pkt_iovcnt) == count # 0 /\ vm_pkt_iovcnt # 0

\* The length of the whole read buffer instead of the packet's size.
DatagramLen_iov_len(packet) == read_iov_in.iov_len

\* iov_out.iov_len: the number of bytes handed to writev().
DatagramLen(packet) == packet.vm_pkt_size

\* writev() on the internal end succeeds while the descriptor is open and the
\* socket buffer has room.
WritevOk == read_socket[1] \in openFds /\ Len(pipe) < PipeCap

\* The test with one status code only.
HandlerSkips_setup == if_status = VMNET_SETUP_INCOMPLETE

\* The test at the head of the handler: return at once.
HandlerSkips == if_status # VMNET_SUCCESS

\* A handler that records a failed writev in if_status.
StatusAfterHandler_poison(r, writev_ok) ==
    IF writev_ok THEN r.status ELSE VMNET_BUFFER_EXHAUSTED

\* if_status when the handler returns: the value vmnet_read returned; the
\* outcome of writev is not stored.
StatusAfterHandler(r, writev_ok) == r.status

\* The packets-available block, i.e. one run of macos_vmnet_read on if_queue.
macos_vmnet_read ==
    /\ queue # <<>> /\ Head(queue).kind = "event"
    /\ queue' = Tail(queue)
    /\ IF HandlerSkips
       THEN /\ ev' = [n |-> ev.n + 1, reads |-> <<>>, writes |-> <<>>, log |-> "none"]
            /\ UNCHANGED <<if_status, bufData, pipe, nFrames>>
       ELSE \E r \in ReadOutcomes :
            /\ if_status' = StatusAfterHandler(r,
                  ~(r.status = VMNET_SUCCESS /\ ShouldForward(r.count, r.vm_pkt_iovcnt))
                      \/ WritevOk)
            /\ nFrames' = IF r.id # 0 THEN r.id ELSE nFrames
            /\ bufData' = IF r.id # 0 THEN r.id ELSE bufData
            /\ IF r.status # VMNET_SUCCESS
               THEN /\ ev' = [n |-> ev.n + 1, reads |-> <<r>>, writes |-> <<>>,
                              log |-> "Unable to read packet"]
                    /\ pipe' = pipe
               ELSE IF ShouldForward(r.count, r.vm_pkt_iovcnt)
               THEN LET d == [id |-> bufData', len |-> DatagramLen(r)]
                    IN  /\ pipe' = IF WritevOk THEN Append(pipe, d) ELSE pipe
                        /\ ev' = [n |-> ev.n + 1, reads |-> <<r>>,
                                  writes |-> <<[len |-> d.len, ok |-> WritevOk]>>,
                                  log |-> IF WritevOk THEN "none"
                                          ELSE "Unable to write to read socket"]
               ELSE /\ ev' = [n |-> ev.n + 1, reads |-> <<r>>, writes |-> <<>>,
                              log |-> "none"]
                    /\ pipe' = pipe
    /\ UNCHANGED <<if_queue, vmnet_if, max_packet_size, read_iov_in, read_socket,
                   openFds, liveQueues, counts, fwCalls, fwRegistered, nEvents, sem,
                   pc, last, calls, lastRecv, phase, hist, nOpen, nClose>>

\* The consumer reads one datagram from the external end.
Recv ==
    /\ pipe # <<>> /\ read_socket[0] \in openFds
    /\ lastRecv' = Head(pipe).id
    /\ pipe' = Tail(pipe)
    /\ UNCHANGED <<statics, bufData, openFds, liveQueues, counts, framework,
                   pc, last, calls, ev, phase, hist, nOpen, nClose>>

\* ----------------------------------------------------- macos_vmnet_write
\* The size check off by one.
WriteTooBig_off(buflen) == buflen > max_packet_size + 1

\* The size check at the head of write.
WriteTooBig(buflen) == buflen > max_packet_size

\* What vmnet_write can return for one packet: success with the count left
\* at 1 or taken to 0, or an error (the count is then not looked at).
WriteOutcomes ==
    {[status |-> VMNET_SUCCESS, pkt_cnt |-> c] : c \in {0, 1}}
        \cup {[status |-> VMNET_BUFFER_EXHAUSTED, pkt_cnt |-> 1]}

\* The return value without the look at the count.
WriteResult_ignores_cnt(status, pkt_cnt, buflen) ==
    IF status # VMNET_SUCCESS THEN -1 ELSE buflen

\* The value write returns after the framework call.
WriteResult(status, pkt_cnt, buflen) ==
    IF status # VMNET_SUCCESS THEN -1
    ELSE IF pkt_cnt # 0 THEN buflen ELSE 0

\* Lengths a caller may pass: the empty frame and the two lengths around the
\* size check.
WriteArgs == {0, max_packet_size, max_packet_size + 1}

macos_vmnet_write(buflen) ==
    /\ pc = "idle"
    /\ IF WriteTooBig(buflen)
       THEN /\ last' = Result("write", buflen, -1)
            /\ calls' = <<>>
       ELSE \E o \in WriteOutcomes :
            /\ calls' = <<Call("vmnet_write", buflen, 1, o.status, o.pkt_cnt)>>
            /\ last' = Result("write", buflen, WriteResult(o.status, o.pkt_cnt, buflen))
    /\ UNCHANGED <<statics, resources, framework, pc, ev, lastRecv, phase, hist,
                   nOpen, nClose>>

\* ---------------------------------------------------------- specification
Next ==
    \/ OpenSocketpairFails
    \/ OpenStart
    \/ StartCompletion
    \/ OpenResume
    \/ \E fd \in CloseArgs : CloseRejected(fd)
    \/ \E fd \in CloseArgs : CloseStop(fd)
    \/ StopCompletion
    \/ CloseResume
    \/ FrameworkEvent
    \/ macos_vmnet_read
    \/ Recv
    \/ \E buflen \in WriteArgs : macos_vmnet_write(buflen)

Spec == Init /\ [][Next]_vars


\* ------------------------------------------------------------ properties
OpenSucceeded == \E i \in 1..Len(hist) : hist[i] = "open_ok"

\* C1: on a Running adapter with status success, a run of the handler whose
\* vmnet_read succeeds with one frame makes exactly one writev of exactly the
\* frame's size, and the frame becomes the newest datagram of the socket
\* buffer unless that writev fails, which is logged; a run whose vmnet_read
\* succeeds with no packet writes nothing.
C1_OneDatagramPerFrame ==
    [][ ( /\ ev'.n = ev.n + 1
          /\ phase = "Running" /\ if_status = VMNET_SUCCESS
          /\ Len(ev'.reads) = 1
          /\ ev'.reads[1].status = VMNET_SUCCESS )
        => LET r == ev'.reads[1]
           IN  IF r.count = 1
               THEN /\ Len(ev'.writes) = 1
                    /\ ev'.writes[1].len = r.vm_pkt_size
                    /\ \/ /\ ev'.writes[1].ok
                          /\ pipe' = Append(pipe, [id |-> r.id, len |-> r.vm_pkt_size])
                       \/ /\ ~ev'.writes[1].ok
                          /\ pipe' = pipe
                          /\ ev'.log = "Unable to write to read socket"
               ELSE ev'.writes = <<>> /\ pipe' = pipe ]_vars

\* A frame shorter than the buffer has been forwarded and is readable.
C1_Witness ==
    /\ phase = "Running"
    /\ Len(ev.reads) = 1 /\ ev.reads[1].status = VMNET_SUCCESS /\ ev.reads[1].count = 1
    /\ Len(ev.writes) = 1 /\ ev.writes[1].ok
    /\ pipe # <<>>
    /\ pipe[Len(pipe)] = [id |-> ev.reads[1].id, len |-> ev.reads[1].vm_pkt_size]
    /\ ev.reads[1].vm_pkt_size < max_packet_size

C3_FailedOpenLeaksNothing ==
    (pc = "idle" /\ last.op = "open" /\ last.val = -1)
        => /\ openFds = {}
           /\ liveQueues = {}
           /\ read_iov_in.iov_base = NULL
           /\ phase = "Uninitialized"

\* C4: when a validated close on a Running adapter has returned an error
\* because the stop completion reported a failure, the dispatch queue is
\* released, the read buffer is freed and both socket ends are closed.
C4_FailedStopReleasesAll ==
    (pc = "idle" /\ OpenSucceeded /\ last.op = "close" /\ last.val = -1 /\ calls # <<>>)
        => /\ if_queue \notin liveQueues
           /\ read_iov_in.iov_base = NULL
           /\ read_socket[0] \notin openFds
           /\ read_socket[1] \notin openFds

\* C5: after a close of a Running adapter has returned success, every write
\* returns an error and makes no framework call.
C5_NoWriteAfterClose ==
    (phase = "Closed" /\ OpenSucceeded /\ last.op = "write")
        => (last.val = -1 /\ calls = <<>>)

\* C6: a write longer than max_packet_size returns -1 without a framework
\* call, so every frame handed to vmnet_write is at most max_packet_size long.
C6_OversizeRejected ==
    last.op = "write"
        => /\ last.arg > max_packet_size => (last.val = -1 /\ calls = <<>>)
           /\ \A i \in 1..Len(calls) :
                 calls[i].fn = "vmnet_write" => calls[i].size <= max_packet_size

\* An oversize write was rejected on a Running adapter.
C6_Witness ==
    /\ phase = "Running" /\ max_packet_size > 0
    /\ last = Result("write", max_packet_size + 1, -1)
    /\ calls = <<>>

\* C7: while no open has ever succeeded, close returns an error and makes no
\* framework call: neither the callback deregistration nor the stop.
C7_CloseUninitialized ==
    ~OpenSucceeded
        => /\ last.op # "closing"
           /\ last.op = "close" => last.val = -1
           /\ \A i \in 1..Len(fwCalls) :
                 fwCalls[i] \notin {"clear_event_callback", "vmnet_stop_interface"}

\* C8: on a Running adapter a close with a descriptor other than the
\* external end returns -1 and changes nothing: no framework call, and the
\* statics, the buffer, the sockets, the queue and the registration stay.
C8_WrongFdNoEffect ==
    [][ ( /\ pc = "idle" /\ phase = "Running"
          /\ last' # last
          /\ last'.op \in {"close", "closing"}
          /\ last'.arg # read_socket[0] )
        => /\ last' = Result("close", last'.arg, -1)
           /\ calls' = <<>>
           /\ UNCHANGED <<statics, resources, framework, pc, phase>> ]_vars

\* A close with the wrong descriptor has been refused while the callback is
\* registered.
C8_Witness ==
    /\ phase = "Running" /\ fwRegistered /\ pc = "idle"
    /\ last.op = "close" /\ last.val = -1 /\ last.arg # read_socket[0]
    /\ calls = <<>>

\* C9: after a successful open followed by a successful close the framework
\* has seen exactly one start, one callback registration, one deregistration
\* and one stop, in that order.
C9_LifecycleCalls ==
    (pc = "idle" /\ hist = <<"open_ok", "close_ok">>)
        => fwCalls = <<"vmnet_start_interface", "set_event_callback",
                       "clear_event_callback", "vmnet_stop_interface">>

\* The cycle has completed with events handled in between.
C9_Witness ==
    pc = "idle" /\ hist = <<"open_ok", "close_ok">> /\ ev.n >= 1

\* C10: on a Running adapter a write of at most max_packet_size bytes makes
\* exactly one vmnet_write call, of that length and with count 1, and returns
\* the length when the call succeeds with the count left at 1, 0 when it
\* succeeds with the count at 0, and -1 when it fails.
C10_WriteResult ==
    (phase = "Running" /\ last.op = "write" /\ last.arg <= max_packet_size)
        => /\ Len(calls) = 1
           /\ calls[1].fn = "vmnet_write"
           /\ calls[1].size = last.arg
           /\ calls[1].cnt_in = 1
           /\ last.val = CASE calls[1].status # VMNET_SUCCESS -> -1
                           [] calls[1].status = VMNET_SUCCESS /\ calls[1].cnt_out = 1 -> last.arg
                           [] calls[1].status = VMNET_SUCCESS /\ calls[1].cnt_out = 0 -> 0

\* A non-empty frame was accepted by the framework but not transmitted.
C10_Witness ==
    /\ phase = "Running" /\ last.op = "write" /\ last.arg > 0 /\ last.val = 0
    /\ Len(calls) = 1 /\ calls[1].status = VMNET_SUCCESS /\ calls[1].cnt_out = 0


\* C11: open and a validated close return only after the completion block
\* of the start, respectively of the stop, has run: while the consumer is
\* not inside a call, no completion block is still waiting on if_queue, and
\* the status open and close acted on is the one the completion reported.
C11_ReturnAfterCompletion ==
    pc = "idle"
        => /\ \A i \in 1..Len(queue) : queue[i].kind \notin {"start_cb", "stop_cb"}
           /\ sem = 0

\* Both an open and a validated close have waited and returned.
C11_Witness ==
    /\ pc = "idle" /\ OpenSucceeded
    /\ last.op = "close" /\ Len(calls) = 2

\* C12: once a successful open has been followed by a successful close, the
\* one read buffer that was allocated has been freed and the two socket ends
\* of that open have been closed; when no earlier open failed, as many
\* socket ends have been closed as were ever opened.
C12_CycleBalanced ==
    (pc = "idle" /\ phase = "Closed" /\ OpenSucceeded)
        => /\ counts.alloc = 1 /\ counts.free = counts.alloc
           /\ counts.sockClose = 2
           /\ read_socket[0] \notin openFds /\ read_socket[1] \notin openFds
           /\ (\A i \in 1..Len(hist) : hist[i] # "open_fail")
                 => counts.sockOpen = counts.sockClose

\* One open and close cycle has completed and released what it acquired.
C12_Witness ==
    /\ phase = "Closed" /\ hist = <<"open_ok", "close_ok">>
    /\ counts = [alloc |-> 1, free |-> 1, sockOpen |-> 2, sockClose |-> 2]

\* C13: whenever the consumer is not inside a call, vmnet_if is non-NULL
\* exactly when the adapter is Running.
C13_HandleIffRunning ==
    pc = "idle" => ((vmnet_if # NULL) <=> (phase = "Running"))

\* C14: a write made while if_status is not success returns an error and
\* does not call vmnet_write.
C14_NoWriteUnlessSuccess ==
    [][ ( /\ if_status # VMNET_SUCCESS
          /\ pc = "idle"
          /\ last'.op = "write"
          /\ <<last, calls>>' # <<last, calls>> )
        => (last'.val = -1 /\ calls' = <<>>) ]_vars

\* C15: a run of the handler that finds if_status not success calls neither
\* vmnet_read nor writev and leaves if_status, the buffer and the socket
\* buffer as they were.
C15_HandlerSkipsOnError ==
    [][ (ev'.n = ev.n + 1 /\ if_status # VMNET_SUCCESS)
        => /\ ev'.reads = <<>> /\ ev'.writes = <<>>
           /\ UNCHANGED <<if_status, pipe, bufData, nFrames>> ]_vars

\* The handler has run and returned at once after a failed read.
C15_Witness ==
    /\ phase = "Running" /\ if_status = VMNET_BUFFER_EXHAUSTED
    /\ ev.n >= 2 /\ ev.reads = <<>> /\ ev.writes = <<>>

\* C16: a failed vmnet_read is transient: the adapter stays Running and the
\* run of the handler for the next event calls vmnet_read again, so that a
\* frame the framework then has is delivered.
C16_ReadErrorIsTransient ==
    [][ ( /\ ev'.n = ev.n + 1
          /\ phase = "Running"
          /\ ev.log = "Unable to read packet" )
        => /\ phase' = "Running"
           /\ Len(ev'.reads) = 1
           /\ (ev'.reads[1].count = 1 /\ ev'.reads[1].status = VMNET_SUCCESS /\ WritevOk)
                 => pipe' = Append(pipe, [id |-> ev'.reads[1].id,
                                          len |-> ev'.reads[1].vm_pkt_size]) ]_vars

\* C17: a run of the handler whose writev fails drops that frame: it has
\* made one vmnet_read and one writev and no more, the socket buffer is as
\* before, the drop is logged and if_status stays success, so that the run
\* for a later event is again a run on a Running adapter with status success.
C17_DropOnPipeFailure ==
    [][ ( /\ ev'.n = ev.n + 1
          /\ Len(ev'.writes) = 1 /\ ~ev'.writes[1].ok )
        => /\ Len(ev'.reads) = 1
           /\ pipe' = pipe
           /\ if_status' = VMNET_SUCCESS
           /\ ev'.log = "Unable to write to read socket" ]_vars

\* A frame was dropped because the socket buffer was full, and the status
\* is still success.
C17_Witness ==
    /\ phase = "Running" /\ if_status = VMNET_SUCCESS
    /\ Len(ev.writes) = 1 /\ ~ev.writes[1].ok
    /\ Len(pipe) = PipeCap /\ nFrames = 2
    /\ \A i \in 1..Len(pipe) : pipe[i].id # nFrames

\* C18: once a close of a Running adapter has returned success, a further
\* close makes no framework call and releases nothing: the framework's call
\* log, the live dispatch queues, the open descriptors and the counts of
\* frees and closes stay as they are.
C18_SecondCloseRefused ==
    [][ (phase = "Closed" /\ OpenSucceeded)
        => /\ UNCHANGED <<fwCalls, liveQueues, openFds, counts>>
           /\ pc' = "idle"
           /\ (last'.op = "close" /\ last' # last) => last'.val = -1 ]_vars

\* C19: a run of the handler that calls vmnet_read finds the read buffer
\* allocated, and one that calls writev finds the internal socket end open:
\* no run uses them after close has freed the one and closed the other,
\* because every event block submitted before the stop completion runs
\* before it, and close waits for the stop completion.
C19_NoUseAfterClose ==
    [][ (ev'.n = ev.n + 1 /\ Len(ev'.reads) = 1)
        => /\ read_iov_in.iov_base # NULL
           /\ Len(ev'.writes) = 1 => read_socket[1] \in openFds ]_vars

\* Close is waiting for the stop completion while an event raised before
\* the deregistration is still ahead of it on if_queue.
C19_Witness ==
    /\ pc = "close_wait" /\ if_status = VMNET_SUCCESS
    /\ Len(queue) >= 2
    /\ Head(queue).kind = "event"
    /\ queue[Len(queue)].kind = "stop_cb"

\* ---------------------------------------------------------------- liveness
\* The serial queue runs every block submitted to it, and a thread whose
\* semaphore has been signalled is scheduled again.
Fairness ==
    /\ WF_vars(StartCompletion)
    /\ WF_vars(StopCompletion)
    /\ WF_vars(macos_vmnet_read)
    /\ WF_vars(OpenResume)
    /\ WF_vars(CloseResume)

LiveSpec == Spec /\ Fairness

\* C20: when the dispatch queue runs the completion block, an open or a
\* validated close that is blocked returns, whether the block signals before
\* or after the caller waits; and a blocked call returns only on a signalled
\* semaphore, so it never returns if the completion never runs.
C20_WaitTerminates ==
    /\ (pc = "open_wait") ~> (pc = "idle")
    /\ (pc = "close_wait") ~> (pc = "idle")
    /\ [][(pc # "idle" /\ pc' = "idle") => sem > 0]_vars

\* The completion has signalled the semaphore and the caller has not yet
\* been resumed.
C20_Witness == pc = "open_wait" /\ sem = 1 /\ queue = <<>>

====
